---- MODULE Spec2Model ----
(***************************************************************************)
(* SMS deep-link short-link service: the two Express entry points          *)
(* (api/index.js, the serverless handler, and the stand-alone server)      *)
(* running against one MongoDB collection "links".                         *)
(*                                                                         *)
(* A JavaScript string is a sequence of one-character strings.  Every      *)
(* `await` on a collection call is a scheduling point: the store executes  *)
(* the call atomically, the code around it runs in the request's own step. *)
(* In Spec, SpecValidate, SpecLinks and SpecCreateFair the connection is up *)
(* and no collection call fails for a reason of the network or the server; *)
(* SpecFail adds such failures and SpecConnect the connection's set-up by  *)
(* the requests of the serverless entry point.  The unique index on        *)
(* shortId exists in the database.                                         *)
(***************************************************************************)
EXTENDS Integers, Sequences, FiniteSets, TLC

\* ------------------------------------------------------------------ bounds
NumRequests == 3

\* ------------------------------------------------------- program constants
MinDigitsApi == 10
MinDigitsServer == 1

\* the longest phone string handed to cleanPhoneNumber directly
MaxLen == 3

\* ------------------------------------------------------ JavaScript values
Undefined == [t |-> "undefined"]
Null == [t |-> "null"]
Str(s) == [t |-> "string", s |-> s]
Num(n) == [t |-> "number", n |-> n]

\* JavaScript truthiness, as used by `!phone`, `!message`, `!existing`
\* (a document, an object, has no tag and is truthy)
Truthy(v) ==
    IF "t" \notin DOMAIN v THEN TRUE
    ELSE CASE v.t = "undefined" -> FALSE
           [] v.t = "null" -> FALSE
           [] v.t = "string" -> Len(v.s) > 0
           [] v.t = "number" -> v.n # 0
           [] OTHER -> TRUE

Digits == {"0", "1", "2", "3", "4", "5", "6", "7", "8", "9"}
WhiteSpace == {" ", "\t", "\n", "\r"}

\* String.prototype.replace(/\D/g, ''): the digits of s, in order
RECURSIVE ReplaceNonDigits(_)
ReplaceNonDigits(s) ==
    IF s = <<>> THEN <<>>
    ELSE (IF Head(s) \in Digits THEN <<Head(s)>> ELSE <<>>)
             \o ReplaceNonDigits(Tail(s))

\* String.prototype.startsWith('+')
StartsWithPlus(s) == Len(s) > 0 /\ s[1] = "+"

RECURSIVE TrimStart(_)
TrimStart(s) ==
    IF s # <<>> /\ Head(s) \in WhiteSpace THEN TrimStart(Tail(s)) ELSE s

RECURSIVE TrimEnd(_)
TrimEnd(s) ==
    IF s # <<>> /\ s[Len(s)] \in WhiteSpace
    THEN TrimEnd(SubSeq(s, 1, Len(s) - 1)) ELSE s

\* String.prototype.trim()
Trim(s) == TrimEnd(TrimStart(s))

\* encodeURIComponent: unreserved characters stay, the others become the
\* percent-encoding of their UTF-8 byte
Escapes ==
    [c \in {" ", "%", "+", "?", "&", "=", "#", "/"} |->
        CASE c = " " -> <<"%", "2", "0">>
          [] c = "%" -> <<"%", "2", "5">>
          [] c = "+" -> <<"%", "2", "B">>
          [] c = "?" -> <<"%", "3", "F">>
          [] c = "&" -> <<"%", "2", "6">>
          [] c = "=" -> <<"%", "3", "D">>
          [] c = "#" -> <<"%", "2", "3">>
          [] c = "/" -> <<"%", "2", "F">>]

\* the encoding of a form field: a space becomes '+'
RECURSIVE encodeURIComponentForm(_)
encodeURIComponentForm(s) ==
    IF s = <<>> THEN <<>>
    ELSE (IF Head(s) = " " THEN <<"+">>
          ELSE IF Head(s) \in DOMAIN Escapes THEN Escapes[Head(s)]
          ELSE <<Head(s)>>)
             \o encodeURIComponentForm(Tail(s))

RECURSIVE encodeURIComponent(_)
encodeURIComponent(s) ==
    IF s = <<>> THEN <<>>
    ELSE (IF Head(s) \in DOMAIN Escapes THEN Escapes[Head(s)] ELSE <<Head(s)>>)
             \o encodeURIComponent(Tail(s))

\* ------------------------------------------------------- helper functions
\* validatePhoneNumber of the entry point e ("api" or "server")
MinDigits(e) == IF e = "api" THEN MinDigitsApi ELSE MinDigitsServer

validatePhoneNumber(e, phone) ==
    IF ~Truthy(phone) \/ phone.t # "string" THEN FALSE
    ELSE Len(ReplaceNonDigits(phone.s)) >= MinDigits(e)

\* cleanPhoneNumber with a pattern that lets every '+' through
cleanPhoneNumberKeepPlus(phone) ==
    IF ~Truthy(phone) THEN <<>>
    ELSE LET kept == SelectSeq(phone.s, LAMBDA c : c \in Digits \cup {"+"})
         IN IF StartsWithPlus(phone.s) THEN <<"+">> \o kept ELSE kept

\* cleanPhoneNumber with hasPlus = phone.includes('+')
cleanPhoneNumberAnyPlus(phone) ==
    IF ~Truthy(phone) THEN <<>>
    ELSE IF \E i \in DOMAIN phone.s : phone.s[i] = "+"
         THEN <<"+">> \o ReplaceNonDigits(phone.s)
         ELSE ReplaceNonDigits(phone.s)

\* cleanPhoneNumber, on a JavaScript value; the result is a string
cleanPhoneNumber(phone) ==
    IF ~Truthy(phone) THEN <<>>
    ELSE IF StartsWithPlus(phone.s)
         THEN <<"+">> \o ReplaceNonDigits(phone.s)
         ELSE ReplaceNonDigits(phone.s)

\* createSmsDeepLink with the message put in as it is
createSmsDeepLinkRaw(phone, message) ==
    <<"s", "m", "s", ":">> \o phone \o <<"?", "b", "o", "d", "y", "=">>
        \o message

\* createSmsDeepLink
createSmsDeepLink(phone, message) ==
    <<"s", "m", "s", ":">> \o phone \o <<"?", "b", "o", "d", "y", "=">>
        \o encodeURIComponent(message)

\* ------------------------------------------------------------- the inputs
PhoneIntl == <<"+", "1", " ", "(", "2", "3", "4", ")", " ", "5", "6", "7",
               "-", "8", "9", "0", "0">>
PhoneTen == <<"1", "2", "3", "4", "5", "6", "7", "8", "9", "0">>
PhoneNine == <<"+", "1", "2", "3", "-", "4", "5", "6", " ", "7", "8", "9">>
PhonePlus == <<"+">>
MsgHi == <<" ", "H", "i", " ">>
MsgBlank == <<" ", " ">>
MsgHiThere == <<"H", "i", " ", "t", "h", "e", "r", "e", "!">>
MsgSums == <<" ", "5", "%", " ", "+", "1", "?", " ">>

\* req.body of POST /api/sms/generate: one body per validation case
Bodies ==
    { [phone |-> Undefined, message |-> Str(MsgHi)],
      [phone |-> Str(<<>>), message |-> Str(MsgHi)],
      [phone |-> Num(1234567890), message |-> Str(MsgHi)],
      [phone |-> Str(PhonePlus), message |-> Str(MsgHi)],
      [phone |-> Str(PhoneNine), message |-> Str(MsgHi)],
      [phone |-> Str(PhoneTen), message |-> Str(MsgHi)],
      [phone |-> Str(PhoneIntl), message |-> Str(MsgHi)],
      [phone |-> Str(PhoneTen), message |-> Undefined],
      [phone |-> Str(PhoneTen), message |-> Str(<<>>)],
      [phone |-> Str(PhoneTen), message |-> Str(MsgBlank)],
      [phone |-> Str(PhoneTen), message |-> Num(5)] }

\* the bodies of the requests that run concurrently
SpecBodies ==
    { [phone |-> Str(PhoneIntl), message |-> Str(MsgHi)] }

\* the bodies of the links that are created and then opened
LinkBodies ==
    { [phone |-> Str(PhoneIntl), message |-> Str(MsgHiThere)],
      [phone |-> Str(PhoneTen), message |-> Str(MsgSums)],
      [phone |-> Str(PhoneIntl), message |-> Str(MsgHi)] }

Hosts == {<<"x", ".", "t", "e", "s", "t">>}

\* the values generateShortId can return (crypto.randomBytes, base64url)
ShortIds == {<<"A">>, <<"B">>}

generateShortId == ShortIds

\* the values of the clock, in ticks
Times == {0, 1}

Requests == 1..NumRequests
Entries == {"api", "server"}

\* -------------------------------------------------------------- the state
VARIABLES
    client,     \* `let client`: the MongoClient of the process
    db,         \* `let db`: the database handle
    linksCollection, \* `let linksCollection`: the handle of collection "links"
    entry,      \* the entry point that serves the requests
    links,      \* the documents of the collection "links", in insertion order
    now,        \* the clock read by `new Date()`
    pc,         \* where each request's handler is
    req,        \* each request (method, body, params, host)
    shortId,    \* Create's candidate identifier
    linkData,   \* Create's document / the document a GET handler found
    update,     \* the update document of Resolve's updateOne call in flight
    res,        \* each request's response
    unit        \* a direct call of a helper function: argument and results

vars == <<client, db, linksCollection, entry, links, now, pc, req, shortId,
          linkData, update, res, unit>>

\* the handles that the driver returns
MongoClient == [t |-> "MongoClient"]
Db == [t |-> "Db"]
Collection == [t |-> "Collection"]

NoRequest == [kind |-> "none"]
NoResponse == [status |-> 0]
NoCall == [arg |-> Undefined, ret |-> <<>>]

\* ------------------------------------------------ the collection (MongoDB)
\* findOne({ shortId }): the first matching document, or null
findOne(coll, id) ==
    IF \E i \in DOMAIN coll : coll[i].shortId = id
    THEN coll[CHOOSE i \in DOMAIN coll :
                  /\ coll[i].shortId = id
                  /\ \A j \in 1..(i - 1) : coll[j].shortId # id]
    ELSE Null

\* insertOne(doc) with the duplicate-key error swallowed
insertOneSilent(coll, doc) ==
    IF \E i \in DOMAIN coll : coll[i].shortId = doc.shortId
    THEN [error |-> "", coll |-> coll]
    ELSE [error |-> "", coll |-> Append(coll, doc)]

\* insertOne(doc) on a collection without the unique index
insertOneNoIndex(coll, doc) == [error |-> "", coll |-> Append(coll, doc)]

\* insertOne(doc) under the unique index on shortId: a duplicate key is an
\* error (E11000) and the collection is left as it is
insertOne(coll, doc) ==
    IF \E i \in DOMAIN coll : coll[i].shortId = doc.shortId
    THEN [error |-> "E11000", coll |-> coll]
    ELSE [error |-> "", coll |-> Append(coll, doc)]

\* updateOne with $inc: { clickCount: -1 }
updateOneDecrement(coll, id, upd) ==
    [i \in DOMAIN coll |->
        IF coll[i].shortId = id
        THEN [f \in (DOMAIN coll[i]) \cup (DOMAIN upd) |->
                 IF f = "clickCount" THEN coll[i].clickCount - 1
                 ELSE IF f \in DOMAIN upd THEN upd[f] ELSE coll[i][f]]
        ELSE coll[i]]

\* the update with an empty filter: every document is modified
updateOneAll(coll, id, upd) ==
    [i \in DOMAIN coll |->
        [f \in (DOMAIN coll[i]) \cup (DOMAIN upd) |->
            IF f = "clickCount" THEN coll[i].clickCount + 1
            ELSE IF f \in DOMAIN upd THEN upd[f] ELSE coll[i][f]]]

\* the update without its $set part
updateOneIncOnly(coll, id, upd) ==
    [i \in DOMAIN coll |->
        IF coll[i].shortId = id
        THEN [coll[i] EXCEPT !.clickCount = @ + 1]
        ELSE coll[i]]

\* updateOne({ shortId }, { $inc: { clickCount: 1 }, $set: upd }): one atomic
\* modification of the first matching document
updateOne(coll, id, upd) ==
    IF \E i \in DOMAIN coll : coll[i].shortId = id
    THEN LET i == CHOOSE k \in DOMAIN coll :
                      /\ coll[k].shortId = id
                      /\ \A j \in 1..(k - 1) : coll[j].shortId # id
             old == coll[i]
         IN [coll EXCEPT ![i] =
                [f \in (DOMAIN old) \cup (DOMAIN upd) |->
                    IF f = "clickCount" THEN old.clickCount + 1
                    ELSE IF f \in DOMAIN upd THEN upd[f] ELSE old[f]]]
    ELSE coll

\* ------------------------------------------------------------------- Init
Init ==
    /\ client = MongoClient
    /\ db = Db
    /\ linksCollection = Collection
    /\ entry \in Entries
    /\ links = <<>>
    /\ now = 0
    /\ pc = [r \in Requests |-> "idle"]
    /\ req = [r \in Requests |-> NoRequest]
    /\ shortId = [r \in Requests |-> Undefined]
    /\ linkData = [r \in Requests |-> Undefined]
    /\ update = [r \in Requests |-> Undefined]
    /\ res = [r \in Requests |-> NoResponse]
    /\ unit = NoCall

\* a clock that can be set back between two reads
ClockSetBack(t) == Times

\* `new Date()` after a read of t: the clock never runs backwards (a tick is
\* the time between two consecutive reads that differ)
Clock(t) == {u \in Times : u = t \/ u = t + 1}

\* a GET /s/:shortId or GET /api/sms/analytics/:shortId request arrives
ArriveGet(r) ==
    /\ pc[r] = "idle"
    /\ r > 1 => pc[r - 1] # "idle"
    /\ \E id \in ShortIds, k \in {"resolve", "analytics"} :
         req' = [req EXCEPT ![r] = [kind |-> k, shortId |-> id]]
    /\ pc' = [pc EXCEPT ![r] = "findOne"]
    /\ UNCHANGED <<client, db, linksCollection, unit, entry, links, now, shortId, linkData, update, res>>

\* ------------------------------------------ POST /api/sms/generate: Create
BadRequest(msg) == [status |-> 400, success |-> FALSE, error |-> msg]
NotFound == [status |-> 404, success |-> FALSE, error |-> "Short link not found"]
ServerError == [status |-> 500, success |-> FALSE, error |-> "Internal server error"]

DigitsMessage(e) ==
    IF e = "api" THEN "Invalid phone number. Must contain at least 10 digits"
    ELSE "Invalid phone number. Must contain at least 1 digit"

\* the validation with the message tested for emptiness without trim()
ValidateNoTrim(e, phone, message) ==
    IF ~Truthy(phone) \/ ~Truthy(message)
    THEN BadRequest("Phone number and message are required")
    ELSE IF message.t # "string" \/ Len(message.s) = 0
    THEN BadRequest("Message must be a non-empty string")
    ELSE IF ~validatePhoneNumber(e, phone)
    THEN BadRequest(DigitsMessage(e))
    ELSE NoResponse

\* the validation of the body: the 400 response, or NoResponse when it passes
Validate(e, phone, message) ==
    IF ~Truthy(phone) \/ ~Truthy(message)
    THEN BadRequest("Phone number and message are required")
    ELSE IF message.t # "string" \/ Len(Trim(message.s)) = 0
    THEN BadRequest("Message must be a non-empty string")
    ELSE IF ~validatePhoneNumber(e, phone)
    THEN BadRequest(DigitsMessage(e))
    ELSE NoResponse

\* the handler with the validation placed after an insert that reserves the
\* identifier
CreateValidateAfterInsert(r, B) ==
    /\ pc[r] = "idle"
    /\ r > 1 => pc[r - 1] # "idle"
    /\ \E b \in B, h \in Hosts, id \in generateShortId :
         LET v == Validate(entry, b.phone, b.message)
         IN /\ req' = [req EXCEPT ![r] =
                   [kind |-> "create", phone |-> b.phone,
                    message |-> b.message, host |-> h]]
            /\ links' = IF v # NoResponse
                         THEN insertOne(links, [shortId |-> id, clickCount |-> 0]).coll
                         ELSE links
            /\ res' = [res EXCEPT ![r] = v]
            /\ pc' = [pc EXCEPT ![r] =
                   IF v # NoResponse THEN "done" ELSE "findOne"]
    /\ UNCHANGED <<client, db, linksCollection, unit, entry, now, shortId, linkData, update>>

\* a POST /api/sms/generate request arrives (requests take the slots in
\* order) with a body of the set B, and the handler validates it
CreateValidate(r, B) ==
    /\ pc[r] = "idle"
    /\ r > 1 => pc[r - 1] # "idle"
    /\ \E b \in B, h \in Hosts :
         LET v == Validate(entry, b.phone, b.message)
         IN /\ req' = [req EXCEPT ![r] =
                   [kind |-> "create", phone |-> b.phone,
                    message |-> b.message, host |-> h]]
            /\ res' = [res EXCEPT ![r] = v]
            /\ pc' = [pc EXCEPT ![r] =
                   IF v # NoResponse THEN "done" ELSE "findOne"]
    /\ UNCHANGED <<client, db, linksCollection, unit, entry, links, now, shortId, linkData, update>>

\* an existence check without the loop around it: the first candidate is used
CreateFindOneNoLoop(r) ==
    /\ pc[r] = "findOne"
    /\ req[r].kind = "create"
    /\ \E id \in generateShortId :
         shortId' = [shortId EXCEPT ![r] = Str(id)]
    /\ pc' = [pc EXCEPT ![r] = "build"]
    /\ UNCHANGED <<client, db, linksCollection, unit, entry, links, now, req, linkData, update, res>>

\* one round of the do-while loop: a candidate and its existence check
CreateFindOne(r) ==
    /\ pc[r] = "findOne"
    /\ req[r].kind = "create"
    /\ \E id \in generateShortId :
         LET existing == findOne(links, id)
             isUnique == ~Truthy(existing)
         IN /\ shortId' = [shortId EXCEPT ![r] = Str(id)]
            /\ pc' = [pc EXCEPT ![r] = IF isUnique THEN "build" ELSE "findOne"]
    /\ UNCHANGED <<client, db, linksCollection, unit, entry, links, now, req, linkData, update, res>>

\* the base URL of the short URL (the literal parts of a template string
\* are kept as one element each)
baseUrl(e, host) ==
    IF e = "api"
    THEN (IF Len(host) > 0 THEN <<"https://">> \o host
          ELSE <<"http://localhost:3000">>)
    ELSE <<"http", "://">> \o host

\* the document is built and handed to insertOne
CreateBuild(r) ==
    /\ pc[r] = "build"
    /\ LET cleanPhone == cleanPhoneNumber(req[r].phone)
           message == Trim(req[r].message.s)
       IN \E c \in Clock(now) : \E u \in Clock(c) :
            /\ linkData' = [linkData EXCEPT ![r] =
                   [shortId |-> shortId[r].s,
                    recipient |-> cleanPhone,
                    message |-> message,
                    deepLink |-> createSmsDeepLink(cleanPhone, message),
                    shortUrl |-> baseUrl(entry, req[r].host)
                                     \o <<"/s/">> \o shortId[r].s,
                    clickCount |-> 0,
                    createdAt |-> c,
                    updatedAt |-> u]]
            /\ now' = u
    /\ pc' = [pc EXCEPT ![r] = "insertOne"]
    /\ UNCHANGED <<client, db, linksCollection, unit, entry, links, req, shortId, update, res>>

\* the response of a successful Create
Created(doc) ==
    [status |-> 200, success |-> TRUE,
     data |-> [shortUrl |-> doc.shortUrl, deepLink |-> doc.deepLink,
               shortId |-> doc.shortId, recipient |-> doc.recipient,
               message |-> doc.message]]

\* the store executes the insert; an error goes to the catch block
CreateInsertOne(r) ==
    /\ pc[r] = "insertOne"
    /\ LET result == insertOne(links, linkData[r])
       IN /\ links' = result.coll
          /\ res' = [res EXCEPT ![r] =
                 IF result.error = "" THEN Created(linkData[r])
                 ELSE ServerError]
    /\ pc' = [pc EXCEPT ![r] = "done"]
    /\ shortId' = [shortId EXCEPT ![r] = Undefined]
    /\ linkData' = [linkData EXCEPT ![r] = Undefined]
    /\ UNCHANGED <<client, db, linksCollection, unit, entry, now, req, update>>

\* ----------------------------------------------- GET /s/:shortId: Resolve
\* the lookup without the `if (!linkData)` branch
ResolveFindOneNoCheck(r) ==
    /\ pc[r] = "findOne"
    /\ req[r].kind = "resolve"
    /\ linkData' = [linkData EXCEPT ![r] = findOne(links, req[r].shortId)]
    /\ pc' = [pc EXCEPT ![r] = "stamp"]
    /\ UNCHANGED <<client, db, linksCollection, unit, entry, links, now, req, shortId, update, res>>

ResolveFindOne(r) ==
    /\ pc[r] = "findOne"
    /\ req[r].kind = "resolve"
    /\ LET found == findOne(links, req[r].shortId)
       IN IF ~Truthy(found)
          THEN /\ res' = [res EXCEPT ![r] = NotFound]
               /\ pc' = [pc EXCEPT ![r] = "done"]
               /\ linkData' = linkData
          ELSE /\ linkData' = [linkData EXCEPT ![r] = found]
               /\ pc' = [pc EXCEPT ![r] = "stamp"]
               /\ res' = res
    /\ UNCHANGED <<client, db, linksCollection, unit, entry, links, now, req, shortId, update>>

\* the update document is built (two clock reads) and handed to updateOne
ResolveStamp(r) ==
    /\ pc[r] = "stamp"
    /\ \E c \in Clock(now) : \E u \in Clock(c) :
         /\ update' = [update EXCEPT ![r] =
                [lastClickedAt |-> c, updatedAt |-> u]]
         /\ now' = u
    /\ pc' = [pc EXCEPT ![r] = "updateOne"]
    /\ UNCHANGED <<client, db, linksCollection, unit, entry, links, req, shortId, linkData, res>>

Redirect(location) == [status |-> 302, location |-> location]

\* the update as a read-modify-write of the document the handler found
ResolveUpdateOneStale(r) ==
    /\ pc[r] = "updateOne"
    /\ links' = [i \in DOMAIN links |->
           IF links[i].shortId = req[r].shortId
           THEN [f \in (DOMAIN links[i]) \cup (DOMAIN update[r]) |->
                    IF f = "clickCount" THEN linkData[r].clickCount + 1
                    ELSE IF f \in DOMAIN update[r] THEN update[r][f]
                    ELSE links[i][f]]
           ELSE links[i]]
    /\ res' = [res EXCEPT ![r] = Redirect(linkData[r].deepLink)]
    /\ pc' = [pc EXCEPT ![r] = "done"]
    /\ linkData' = [linkData EXCEPT ![r] = Undefined]
    /\ UNCHANGED <<client, db, linksCollection, unit, entry, now, req, shortId, update>>

\* the store executes the update; the handler redirects
ResolveUpdateOne(r) ==
    /\ pc[r] = "updateOne"
    /\ links' = updateOne(links, req[r].shortId, update[r])
    /\ res' = [res EXCEPT ![r] = Redirect(linkData[r].deepLink)]
    /\ pc' = [pc EXCEPT ![r] = "done"]
    /\ linkData' = [linkData EXCEPT ![r] = Undefined]
    /\ UNCHANGED <<client, db, linksCollection, unit, entry, now, req, shortId, update>>

\* ------------------------------ GET /api/sms/analytics/:shortId: Analytics
\* the view with updatedAt taken from the wrong field
AnalyticsViewSwapped(doc) ==
    [status |-> 200, success |-> TRUE,
     data |-> [shortId |-> doc.shortId,
               recipient |-> doc.recipient,
               message |-> doc.message,
               shortUrl |-> doc.shortUrl,
               deepLink |-> doc.deepLink,
               clickCount |-> doc.clickCount,
               createdAt |-> doc.createdAt,
               lastClickedAt |-> IF "lastClickedAt" \in DOMAIN doc
                                 THEN Num(doc.lastClickedAt) ELSE Null,
               updatedAt |-> doc.createdAt]]

\* the JSON of a document (a date is rendered as its number of ticks)
AnalyticsView(doc) ==
    [status |-> 200, success |-> TRUE,
     data |-> [shortId |-> doc.shortId,
               recipient |-> doc.recipient,
               message |-> doc.message,
               shortUrl |-> doc.shortUrl,
               deepLink |-> doc.deepLink,
               clickCount |-> doc.clickCount,
               createdAt |-> doc.createdAt,
               lastClickedAt |-> IF "lastClickedAt" \in DOMAIN doc
                                 THEN Num(doc.lastClickedAt) ELSE Null,
               updatedAt |-> doc.updatedAt]]

\* the lookup as a tracked access
AnalyticsFindOneTracked(r) ==
    /\ pc[r] = "findOne"
    /\ req[r].kind = "analytics"
    /\ LET found == findOne(links, req[r].shortId)
       IN res' = [res EXCEPT ![r] =
              IF ~Truthy(found) THEN NotFound ELSE AnalyticsView(found)]
    /\ links' = updateOne(links, req[r].shortId, [updatedAt |-> now])
    /\ pc' = [pc EXCEPT ![r] = "done"]
    /\ UNCHANGED <<client, db, linksCollection, unit, entry, now, req, shortId, linkData, update>>

AnalyticsFindOne(r) ==
    /\ pc[r] = "findOne"
    /\ req[r].kind = "analytics"
    /\ LET found == findOne(links, req[r].shortId)
       IN res' = [res EXCEPT ![r] =
              IF ~Truthy(found) THEN NotFound ELSE AnalyticsView(found)]
    /\ pc' = [pc EXCEPT ![r] = "done"]
    /\ UNCHANGED <<client, db, linksCollection, unit, entry, links, now, req, shortId, linkData, update>>

\* ------------------------------------------------- failures of store calls
\* a collection call in flight (findOne, insertOne or updateOne) fails for a
\* reason of the network or the server: nothing is stored, and the awaited
\* promise is rejected
StoreCallFails(r) ==
    /\ pc[r] \in {"findOne", "insertOne", "updateOne"}
    /\ pc' = [pc EXCEPT ![r] = "catch"]
    /\ UNCHANGED <<client, db, linksCollection, unit, entry, links, now, req,
                   shortId, linkData, update, res>>

\* a catch block that starts the handler's store calls again
HandlerCatchRetry(r) ==
    /\ pc[r] = "catch"
    /\ pc' = [pc EXCEPT ![r] = "findOne"]
    /\ UNCHANGED <<client, db, linksCollection, unit, entry, links, now, req,
                   shortId, linkData, update, res>>

\* the handler's catch block: it logs the error and answers 500
HandlerCatch(r) ==
    /\ pc[r] = "catch"
    /\ res' = [res EXCEPT ![r] = ServerError]
    /\ pc' = [pc EXCEPT ![r] = "done"]
    /\ shortId' = [shortId EXCEPT ![r] = Undefined]
    /\ linkData' = [linkData EXCEPT ![r] = Undefined]
    /\ update' = [update EXCEPT ![r] = Undefined]
    /\ UNCHANGED <<client, db, linksCollection, unit, entry, links, now, req>>

\* ------------------------------- connectToMongoDB of the serverless entry
\* a request of the serverless entry point arrives and its handler calls
\* connectToMongoDB (MONGODB_URI is set): without a client the function makes
\* one and awaits its connect(); with a client it returns { db,
\* linksCollection } as they are
ArriveConnect(r) ==
    /\ entry = "api"
    /\ pc[r] = "idle"
    /\ r > 1 => pc[r - 1] # "idle"
    /\ \/ \E b \in SpecBodies, h \in Hosts :
            req' = [req EXCEPT ![r] =
                [kind |-> "create", phone |-> b.phone,
                 message |-> b.message, host |-> h]]
       \/ \E id \in ShortIds, k \in {"resolve", "analytics"} :
            req' = [req EXCEPT ![r] = [kind |-> k, shortId |-> id]]
    /\ IF ~Truthy(client)
       THEN /\ client' = MongoClient
            /\ pc' = [pc EXCEPT ![r] = "connect"]
       ELSE /\ client' = client
            /\ pc' = [pc EXCEPT ![r] = "connected"]
    /\ UNCHANGED <<db, linksCollection, unit, entry, links, now, shortId,
                   linkData, update, res>>

\* client.connect() returns, and the ping is sent
ConnectDone(r) ==
    /\ pc[r] = "connect"
    /\ pc' = [pc EXCEPT ![r] = "ping"]
    /\ UNCHANGED <<client, db, linksCollection, unit, entry, links, now, req,
                   shortId, linkData, update, res>>

\* the ping returns: db and linksCollection are set, createIndex is sent
PingDone(r) ==
    /\ pc[r] = "ping"
    /\ db' = Db
    /\ linksCollection' = Collection
    /\ pc' = [pc EXCEPT ![r] = "createIndex"]
    /\ UNCHANGED <<client, unit, entry, links, now, req, shortId, linkData,
                   update, res>>

\* createIndex returns, or fails and the failure is swallowed: the function
\* returns { db, linksCollection }
CreateIndexDone(r) ==
    /\ pc[r] = "createIndex"
    /\ pc' = [pc EXCEPT ![r] = "connected"]
    /\ UNCHANGED <<client, db, linksCollection, unit, entry, links, now, req,
                   shortId, linkData, update, res>>

\* connect() or the ping fails: the catch block of connectToMongoDB resets
\* the three variables and throws again, and the handler answers 500
ConnectFails(r) ==
    /\ pc[r] \in {"connect", "ping"}
    /\ client' = Null
    /\ db' = Null
    /\ linksCollection' = Null
    /\ res' = [res EXCEPT ![r] = ServerError]
    /\ pc' = [pc EXCEPT ![r] = "done"]
    /\ UNCHANGED <<unit, entry, links, now, req, shortId, linkData, update>>

\* the handler continues after `await connectToMongoDB()`: Create validates
\* the body and starts its loop, the GET handlers call findOne; a call on a
\* linksCollection that is undefined or null throws a TypeError, which the
\* handler's catch block answers with 500
Continue(r) ==
    /\ pc[r] = "connected"
    /\ LET v == IF req[r].kind = "create"
                THEN Validate(entry, req[r].phone, req[r].message)
                ELSE NoResponse
       IN IF v # NoResponse
          THEN /\ res' = [res EXCEPT ![r] = v]
               /\ pc' = [pc EXCEPT ![r] = "done"]
          ELSE IF Truthy(linksCollection)
          THEN /\ res' = res
               /\ pc' = [pc EXCEPT ![r] = "findOne"]
          ELSE /\ res' = [res EXCEPT ![r] = ServerError]
               /\ pc' = [pc EXCEPT ![r] = "done"]
    /\ UNCHANGED <<client, db, linksCollection, unit, entry, links, now, req,
                   shortId, linkData, update>>

\* ------------------------------------------------------ the specification
Next ==
    \/ \E r \in Requests : CreateValidate(r, SpecBodies)
    \/ \E r \in Requests : ArriveGet(r)
    \/ \E r \in Requests : CreateFindOne(r)
    \/ \E r \in Requests : CreateBuild(r)
    \/ \E r \in Requests : CreateInsertOne(r)
    \/ \E r \in Requests : ResolveFindOne(r)
    \/ \E r \in Requests : ResolveStamp(r)
    \/ \E r \in Requests : ResolveUpdateOne(r)
    \/ \E r \in Requests : AnalyticsFindOne(r)

Spec == Init /\ [][Next]_vars

\* a specification of Create alone, one request after the other, over every
\* body of Bodies
NextValidate ==
    \/ \E r \in Requests :
         /\ r > 1 => pc[r - 1] = "done"
         /\ CreateValidate(r, Bodies)
    \/ \E r \in Requests : CreateFindOne(r)
    \/ \E r \in Requests : CreateBuild(r)
    \/ \E r \in Requests : CreateInsertOne(r)

SpecValidate == Init /\ [][NextValidate]_vars

\* a specification of links that are created and then opened, one request
\* after the other, over the bodies of LinkBodies
NextLinks ==
    \/ \E r \in Requests :
         /\ r > 1 => pc[r - 1] = "done"
         /\ CreateValidate(r, LinkBodies)
    \/ \E r \in Requests :
         /\ r > 1 => pc[r - 1] = "done"
         /\ ArriveGet(r)
    \/ \E r \in Requests : CreateFindOne(r)
    \/ \E r \in Requests : CreateBuild(r)
    \/ \E r \in Requests : CreateInsertOne(r)
    \/ \E r \in Requests : ResolveFindOne(r)
    \/ \E r \in Requests : ResolveStamp(r)
    \/ \E r \in Requests : ResolveUpdateOne(r)
    \/ \E r \in Requests : AnalyticsFindOne(r)

SpecLinks == Init /\ [][NextLinks]_vars

\* a specification of requests, one after the other, whose collection calls
\* can fail
NextFail ==
    \/ \E r \in Requests :
         /\ r > 1 => pc[r - 1] = "done"
         /\ CreateValidate(r, SpecBodies)
    \/ \E r \in Requests :
         /\ r > 1 => pc[r - 1] = "done"
         /\ ArriveGet(r)
    \/ \E r \in Requests : CreateFindOne(r)
    \/ \E r \in Requests : CreateBuild(r)
    \/ \E r \in Requests : CreateInsertOne(r)
    \/ \E r \in Requests : ResolveFindOne(r)
    \/ \E r \in Requests : ResolveStamp(r)
    \/ \E r \in Requests : ResolveUpdateOne(r)
    \/ \E r \in Requests : AnalyticsFindOne(r)
    \/ \E r \in Requests : StoreCallFails(r)
    \/ \E r \in Requests : HandlerCatch(r)

SpecFail == Init /\ [][NextFail]_vars

\* a specification of the serverless entry point from a cold start: the
\* requests are concurrent, and each of them calls connectToMongoDB first
InitConnect ==
    /\ client = Undefined
    /\ db = Undefined
    /\ linksCollection = Undefined
    /\ entry = "api"
    /\ links = <<>>
    /\ now = 0
    /\ pc = [r \in Requests |-> "idle"]
    /\ req = [r \in Requests |-> NoRequest]
    /\ shortId = [r \in Requests |-> Undefined]
    /\ linkData = [r \in Requests |-> Undefined]
    /\ update = [r \in Requests |-> Undefined]
    /\ res = [r \in Requests |-> NoResponse]
    /\ unit = NoCall

NextConnect ==
    \/ \E r \in Requests : ArriveConnect(r)
    \/ \E r \in Requests : ConnectDone(r)
    \/ \E r \in Requests : PingDone(r)
    \/ \E r \in Requests : CreateIndexDone(r)
    \/ \E r \in Requests : ConnectFails(r)
    \/ \E r \in Requests : Continue(r)
    \/ \E r \in Requests : CreateFindOne(r)
    \/ \E r \in Requests : CreateBuild(r)
    \/ \E r \in Requests : CreateInsertOne(r)
    \/ \E r \in Requests : ResolveFindOne(r)
    \/ \E r \in Requests : ResolveStamp(r)
    \/ \E r \in Requests : ResolveUpdateOne(r)
    \/ \E r \in Requests : AnalyticsFindOne(r)

SpecConnect == InitConnect /\ [][NextConnect]_vars

\* a specification of Create requests, one after the other, in which every
\* store call returns and crypto.randomBytes does not avoid the free identifiers for
\* ever: a request whose next step can be taken (the continuation after an
\* await, or the round of the loop that draws an identifier the store does
\* not have) takes it
NextCreate ==
    \/ \E r \in Requests :
         /\ r > 1 => pc[r - 1] = "done"
         /\ CreateValidate(r, SpecBodies)
    \/ \E r \in Requests : CreateFindOne(r)
    \/ \E r \in Requests : CreateBuild(r)
    \/ \E r \in Requests : CreateInsertOne(r)

SpecCreateFair ==
    /\ Init
    /\ [][NextCreate]_vars
    /\ \A r \in Requests :
         WF_vars(\/ CreateFindOne(r) /\ pc'[r] = "build"
                 \/ CreateBuild(r)
                 \/ CreateInsertOne(r))

\* a specification of cleanPhoneNumber alone: it is called on a string of at
\* most MaxLen characters, and then on its own result
PhoneChars == {"+", "1", "2", " ", "-"}
PhoneStrings == UNION {[1..k -> PhoneChars] : k \in 0..MaxLen}

InitClean ==
    /\ client = MongoClient
    /\ db = Db
    /\ linksCollection = Collection
    /\ entry \in Entries
    /\ links = <<>>
    /\ now = 0
    /\ pc = [r \in Requests |-> "idle"]
    /\ req = [r \in Requests |-> NoRequest]
    /\ shortId = [r \in Requests |-> Undefined]
    /\ linkData = [r \in Requests |-> Undefined]
    /\ update = [r \in Requests |-> Undefined]
    /\ res = [r \in Requests |-> NoResponse]
    /\ unit \in {[arg |-> Str(s), ret |-> <<>>] : s \in PhoneStrings}

CallCleanPhoneNumber ==
    /\ Len(unit.ret) < 2
    /\ unit' = [unit EXCEPT !.ret =
           Append(@, cleanPhoneNumber(IF @ = <<>> THEN unit.arg
                                      ELSE Str(@[Len(@)])))]
    /\ UNCHANGED <<client, db, linksCollection, entry, links, now, pc, req,
                   shortId, linkData, update, res>>

NextClean == CallCleanPhoneNumber

SpecClean == InitClean /\ [][NextClean]_vars

\* ------------------------------------------------------------- properties
IsDone(r, kind) == req[r].kind = kind /\ pc[r] = "done"

Stored(id) == {i \in DOMAIN links : links[i].shortId = id}

\* C1: no two stored documents have the same shortId, and an insert that the
\* store rejected stored nothing: the documents are exactly those of the
\* Create requests that succeeded
C1_UniqueShortId ==
    /\ \A i, j \in DOMAIN links :
         i # j => links[i].shortId # links[j].shortId
    /\ Len(links) =
         Cardinality({r \in Requests :
                         IsDone(r, "create") /\ res[r].status = 200})
    /\ \A r \in Requests :
         IsDone(r, "create") /\ res[r].status = 200
             => Stored(res[r].data.shortId) # {}

\* a Create whose insert was rejected as a duplicate, next to the stored one
C1_Witness ==
    /\ Len(links) >= 1
    /\ \E r \in Requests : IsDone(r, "create") /\ res[r].status = 500

\* C2: every Create with a valid body that has run returned successfully,
\* the returned shortIds are pairwise distinct, and the store holds one
\* document per Create
C2_ConcurrentCreatesSucceed ==
    LET finished == {r \in Requests : IsDone(r, "create")}
    IN /\ \A r \in finished : res[r].status = 200
       /\ \A r1, r2 \in finished :
            r1 # r2 => res[r1].data.shortId # res[r2].data.shortId
       /\ Len(links) = Cardinality(finished)

\* C3: the clickCount of a document is the number of Resolve requests for
\* its shortId whose update the store has executed
C3_ClickCountExact ==
    \A i \in DOMAIN links :
        links[i].clickCount =
            Cardinality({r \in Requests :
                            /\ IsDone(r, "resolve")
                            /\ req[r].shortId = links[i].shortId
                            /\ res[r].status = 302})

\* one Resolve has been counted while another one, which found the document
\* before that increment, has its update in flight
C3_Witness ==
    \E i \in DOMAIN links, r \in Requests :
        /\ links[i].clickCount >= 1
        /\ req[r].kind = "resolve"
        /\ req[r].shortId = links[i].shortId
        /\ pc[r] = "updateOne"
        /\ linkData[r].clickCount = 0

InFlight(r) == pc[r] \notin {"idle", "done"}

\* C4: once every Resolve of a shortId has completed, lastClickedAt is the
\* latest timestamp that any of them took
C4_LastClickedAtIsLatest ==
    \A i \in DOMAIN links :
        LET calls == {r \in Requests : /\ req[r].kind = "resolve"
                                       /\ req[r].shortId = links[i].shortId}
            redirected == {r \in calls : pc[r] = "done" /\ res[r].status = 302}
        IN (redirected # {} /\ \A r \in calls : ~InFlight(r))
               => /\ \E r \in redirected :
                       links[i].lastClickedAt = update[r].lastClickedAt
                  /\ \A r \in redirected :
                       links[i].lastClickedAt >= update[r].lastClickedAt

\* C5: a Resolve whose lookup finds no document answers 404 "Short link not
\* found" and the collection is left as it is
C5_ResolveUnknown ==
    [][\A r \in Requests :
          (/\ req[r].kind = "resolve"
           /\ pc[r] = "findOne"
           /\ pc'[r] # "findOne"
           /\ Stored(req[r].shortId) = {})
              => /\ pc'[r] = "done"
                 /\ res'[r].status = 404
                 /\ res'[r].error = "Short link not found"
                 /\ links' = links]_vars

\* a Resolve of a shortId without a document has been answered
C5_Witness ==
    \E r \in Requests :
        /\ IsDone(r, "resolve")
        /\ res[r].status = 404
        /\ Stored(req[r].shortId) = {}

\* C6: no step of an Analytics request changes the collection
C6_AnalyticsReadOnly ==
    [][\A r \in Requests :
          (req'[r].kind = "analytics" /\ pc'[r] # pc[r]) => links' = links]_vars

\* an Analytics request has returned a document that has been resolved
C6_Witness ==
    \E r \in Requests :
        /\ IsDone(r, "analytics")
        /\ res[r].status = 200
        /\ res[r].data.clickCount >= 1

\* C7: Analytics answers 404 when no document has the shortId, and else the
\* nine fields with the stored values, lastClickedAt being null exactly when
\* the document has never been resolved
C7_AnalyticsView ==
    [][\A r \in Requests :
          (req[r].kind = "analytics" /\ pc[r] = "findOne" /\ pc'[r] = "done")
              => IF Stored(req[r].shortId) = {}
                 THEN res'[r].status = 404
                 ELSE \E i \in Stored(req[r].shortId) :
                        LET d == links[i]
                            v == res'[r].data
                        IN /\ res'[r].status = 200
                           /\ DOMAIN v = {"shortId", "recipient", "message",
                                          "shortUrl", "deepLink", "clickCount",
                                          "createdAt", "updatedAt",
                                          "lastClickedAt"}
                           /\ v.shortId = d.shortId
                           /\ v.recipient = d.recipient
                           /\ v.message = d.message
                           /\ v.shortUrl = d.shortUrl
                           /\ v.deepLink = d.deepLink
                           /\ v.clickCount = d.clickCount
                           /\ v.createdAt = d.createdAt
                           /\ v.updatedAt = d.updatedAt
                           /\ (v.lastClickedAt = Null) <=> (d.clickCount = 0)
                           /\ d.clickCount > 0
                                  => v.lastClickedAt = Num(d.lastClickedAt)]_vars

\* an Analytics request has returned a resolved document whose two click
\* timestamps differ from its creation time
C7_Witness ==
    \E r \in Requests :
        /\ IsDone(r, "analytics")
        /\ res[r].status = 200
        /\ res[r].data.lastClickedAt # Null
        /\ res[r].data.updatedAt # res[r].data.createdAt

\* C8: a duplicate-key rejection of Create's insert is never reported to the
\* caller as a failure
C8_DuplicateKeyInvisible ==
    \A r \in Requests : IsDone(r, "create") => res[r].status # 500

Missing(v) == v.t = "undefined" \/ (v.t = "string" /\ v.s = <<>>)

OnlyWhiteSpace(v) ==
    v.t = "string" /\ \A i \in DOMAIN v.s : v.s[i] \in WhiteSpace

NumDigits(s) == Cardinality({i \in DOMAIN s : s[i] \in Digits})

\* C9: a Create whose phone is empty or missing, whose message is empty or
\* missing, or whose message is only whitespace is answered 400 and no
\* record is returned
C9_ValidationRejects ==
    \A r \in Requests :
        (/\ req[r].kind = "create"
         /\ \/ Missing(req[r].phone)
            \/ Missing(req[r].message)
            \/ OnlyWhiteSpace(req[r].message))
            => /\ pc[r] = "done"
               /\ res[r].status = 400
               /\ "data" \notin DOMAIN res[r]

\* the three cases have been rejected: a missing phone, an empty message and
\* a message of blanks
C9_Witness ==
    /\ \E r \in Requests :
         IsDone(r, "create") /\ req[r].phone = Undefined /\ res[r].status = 400
    /\ \E r \in Requests :
         IsDone(r, "create") /\ req[r].message = Str(<<>>)
             /\ res[r].status = 400
    /\ \E r \in Requests :
         IsDone(r, "create") /\ req[r].message = Str(MsgBlank)
             /\ res[r].status = 400

\* C10: in every entry point, a Create whose phone has fewer than 10 digits
\* is answered 400, and one whose phone has at least 10 digits (the message
\* being valid) is not
C10_MinimumDigits ==
    \A r \in Requests :
        (/\ req[r].kind = "create"
         /\ req[r].phone.t = "string"
         /\ ~Missing(req[r].message)
         /\ ~OnlyWhiteSpace(req[r].message)
         /\ req[r].message.t = "string")
            => IF NumDigits(req[r].phone.s) < 10
               THEN pc[r] = "done" /\ res[r].status = 400
               ELSE res[r].status # 400

\* C11: cleanPhoneNumber applied to its own result returns that result
C11_CleanIdempotent ==
    Len(unit.ret) = 2 => unit.ret[2] = unit.ret[1]

\* the second call has returned, for a string with a leading '+', a '+'
\* further on and characters that are removed
C11_Witness ==
    /\ Len(unit.ret) = 2
    /\ unit.arg = Str(<<"+", " ", "+">>)
    /\ unit.ret[1] = <<"+">>

\* percent-decoding: the inverse of the escapes, "URIError" on anything else
\* that starts with '%'
RECURSIVE PercentDecode(_)
PercentDecode(s) ==
    IF s = <<>> THEN <<>>
    ELSE IF Head(s) # "%"
         THEN LET rest == PercentDecode(Tail(s))
              IN IF rest = <<"URIError">> THEN rest ELSE <<Head(s)>> \o rest
    ELSE IF Len(s) >= 3
            /\ \E c \in DOMAIN Escapes : Escapes[c] = SubSeq(s, 1, 3)
         THEN LET c == CHOOSE c \in DOMAIN Escapes :
                           Escapes[c] = SubSeq(s, 1, 3)
                  rest == PercentDecode(SubSeq(s, 4, Len(s)))
              IN IF rest = <<"URIError">> THEN rest ELSE <<c>> \o rest
    ELSE <<"URIError">>

\* t is s without its leading and trailing whitespace
IsTrimOf(t, s) ==
    /\ t = <<>> \/ (t[1] \notin WhiteSpace /\ t[Len(t)] \notin WhiteSpace)
    /\ \E a, b \in 0..Len(s) :
         /\ a + b <= Len(s)
         /\ t = SubSeq(s, a + 1, Len(s) - b)
         /\ \A i \in 1..a : s[i] \in WhiteSpace
         /\ \A i \in (Len(s) - b + 1)..Len(s) : s[i] \in WhiteSpace

Redirected(r) == IsDone(r, "resolve") /\ res[r].status = 302

\* C12: the deep link a Resolve redirects to is "sms:", the stored recipient,
\* "?body=" and a text that percent-decodes to the trimmed message of the
\* Create that made the record; every Resolve of the record gets the same one
C12_DeepLinkRoundTrip ==
    \A r \in Requests :
        Redirected(r) =>
            /\ \E c \in Requests, i \in Stored(req[r].shortId) :
                 /\ IsDone(c, "create")
                 /\ res[c].status = 200
                 /\ res[c].data.shortId = req[r].shortId
                 /\ LET head == <<"s", "m", "s", ":">> \o links[i].recipient
                                    \o <<"?", "b", "o", "d", "y", "=">>
                        loc == res[r].location
                    IN /\ Len(loc) >= Len(head)
                       /\ SubSeq(loc, 1, Len(head)) = head
                       /\ IsTrimOf(PercentDecode(SubSeq(loc, Len(head) + 1,
                                                        Len(loc))),
                                   req[c].message.s)
            /\ \A q \in Requests :
                 (Redirected(q) /\ req[q].shortId = req[r].shortId)
                     => res[q].location = res[r].location

\* a link whose message has blanks around it and characters that are
\* escaped has been opened twice
C12_Witness ==
    \E c, r, q \in Requests :
        /\ IsDone(c, "create")
        /\ res[c].status = 200
        /\ req[c].message = Str(MsgSums)
        /\ r # q
        /\ Redirected(r)
        /\ Redirected(q)
        /\ req[r].shortId = res[c].data.shortId
        /\ req[q].shortId = res[c].data.shortId

C14_ClickCountMonotonic ==
    [][/\ \A i \in DOMAIN links :
            /\ i \in DOMAIN links'
            /\ links'[i].clickCount >= links[i].clickCount
       /\ \A i \in (DOMAIN links') \ (DOMAIN links) : links'[i].clickCount = 0
       /\ \A i \in DOMAIN links' : links'[i].clickCount \in Nat]_vars

\* a record has been counted twice
C14_Witness == \E i \in DOMAIN links : links[i].clickCount = 2

\* C15: a stored record stays, with its shortId, recipient, message,
\* deepLink, shortUrl and createdAt; it changes only in the step in which
\* the store executes the update of a Resolve of its shortId, and then only
\* in clickCount, updatedAt and lastClickedAt
C15_OnlyResolveUpdates ==
    [][\A i \in DOMAIN links :
          /\ i \in DOMAIN links'
          /\ \A f \in {"shortId", "recipient", "message", "deepLink",
                       "shortUrl", "createdAt"} : links'[i][f] = links[i][f]
          /\ (DOMAIN links'[i]) \ (DOMAIN links[i]) \subseteq {"lastClickedAt"}
          /\ DOMAIN links[i] \subseteq DOMAIN links'[i]
          /\ links'[i] # links[i]
                => \E r \in Requests :
                     /\ req[r].kind = "resolve"
                     /\ req[r].shortId = links[i].shortId
                     /\ pc[r] = "updateOne"
                     /\ pc'[r] = "done"]_vars

\* of two stored records one has been opened and the other has not
C15_Witness ==
    \E i, j \in DOMAIN links :
        links[i].clickCount >= 1 /\ links[j].clickCount = 0

\* C16: a record has a lastClickedAt exactly when its clickCount is at
\* least 1
C16_LastClickedIffCounted ==
    \A i \in DOMAIN links :
        ("lastClickedAt" \in DOMAIN links[i]) <=> (links[i].clickCount >= 1)

\* a record has been opened while a second Resolve of it has its update in
\* flight
C16_Witness ==
    \E i \in DOMAIN links, r \in Requests :
        /\ "lastClickedAt" \in DOMAIN links[i]
        /\ req[r].kind = "resolve"
        /\ req[r].shortId = links[i].shortId
        /\ pc[r] = "updateOne"

\* C17: whenever a record has a lastClickedAt, its updatedAt is equal to it
C17_UpdatedAtIsLastClickedAt ==
    \A i \in DOMAIN links :
        "lastClickedAt" \in DOMAIN links[i]
            => links[i].updatedAt = links[i].lastClickedAt

\* C18: the lastClickedAt of a record is not before its createdAt
C18_LastClickedAfterCreated ==
    \A i \in DOMAIN links :
        "lastClickedAt" \in DOMAIN links[i]
            => links[i].lastClickedAt >= links[i].createdAt

\* a record has been opened a tick after it was created
C18_Witness ==
    \E i \in DOMAIN links :
        /\ "lastClickedAt" \in DOMAIN links[i]
        /\ links[i].lastClickedAt > links[i].createdAt

\* C19: the record handed to insertOne has clickCount 0, no lastClickedAt,
\* and one creation time in createdAt and updatedAt
C19_NewRecord ==
    \A r \in Requests :
        pc[r] = "insertOne"
            => /\ linkData[r].clickCount = 0
               /\ "lastClickedAt" \notin DOMAIN linkData[r]
               /\ linkData[r].createdAt = linkData[r].updatedAt

\* C20: the step in which a Create reports success appends the returned
\* record to the collection; every other step of a Create, the one that
\* reports a failure included, leaves the collection as it is
C20_OneInsertOnSuccess ==
    [][\A r \in Requests :
          (req'[r].kind = "create" /\ pc'[r] # pc[r])
              => IF pc'[r] = "done" /\ res'[r].status = 200
                 THEN /\ Len(links') = Len(links) + 1
                      /\ SubSeq(links', 1, Len(links)) = links
                      /\ LET d == links'[Len(links')]
                         IN /\ d.shortId = res'[r].data.shortId
                            /\ d.recipient = res'[r].data.recipient
                            /\ d.message = res'[r].data.message
                            /\ d.deepLink = res'[r].data.deepLink
                            /\ d.shortUrl = res'[r].data.shortUrl
                 ELSE links' = links]_vars

\* one Create has reported success and another one, whose insert was
\* rejected, a failure
C20_Witness ==
    \E r, q \in Requests :
        /\ IsDone(r, "create") /\ res[r].status = 200
        /\ IsDone(q, "create") /\ res[q].status = 500
        /\ Len(links) = 1

\* C21: the result of cleanPhoneNumber is the digits of the argument in
\* their order, after one '+' exactly when the argument starts with '+'
C21_CleanResult ==
    Len(unit.ret) >= 1 =>
        LET in == unit.arg.s
            out == unit.ret[1]
            plus == IF Len(in) > 0 /\ in[1] = "+" THEN 1 ELSE 0
            at == {i \in DOMAIN in : in[i] \in Digits}
        IN /\ Len(out) = plus + Cardinality(at)
           /\ plus = 1 => out[1] = "+"
           /\ \A k \in 1..Cardinality(at) :
                \E i \in at :
                    /\ Cardinality({j \in at : j < i}) = k - 1
                    /\ out[plus + k] = in[i]
           /\ \A k \in DOMAIN out : out[k] = "+" => k = 1

\* the cases of the result: a '+' inside the argument is dropped, a leading
\* one is kept, and the digits keep their order
C21_Witness ==
    /\ Len(unit.ret) >= 1
    /\ \/ unit.arg = Str(<<"2", "+", "1">>) /\ unit.ret[1] = <<"2", "1">>
       \/ unit.arg = Str(<<"+", "-", "2">>) /\ unit.ret[1] = <<"+", "2">>

\* C25: the step in which Create answers 400 is the first step of the
\* request (no existence check came before it), it generates no candidate,
\* builds no document and leaves the stored documents as they are
C25_RejectedLeavesStore ==
    [][\A r \in Requests :
         (pc[r] # "done" /\ pc'[r] = "done" /\ req'[r].kind = "create"
            /\ res'[r].status = 400)
         => /\ pc[r] = "idle"
            /\ links' = links
            /\ shortId'[r] = Undefined
            /\ linkData'[r] = Undefined]_vars

\* a request is rejected while a document is stored
C25_Witness ==
    \E r \in Requests :
        /\ IsDone(r, "create")
        /\ res[r].status = 400
        /\ Len(links) >= 1

\* every identifier the generator can yield is stored
StoreFull == \A id \in generateShortId : Stored(id) # {}

\* C22: Create leaves its loop only with a candidate that the existence check
\* of that round did not find, and stays in the loop otherwise; and a Create
\* request in the loop gets its response, unless the generator has no
\* identifier left that is not stored
C22_LoopLeavesUnique ==
    /\ [][\A r \in Requests :
            (pc[r] = "findOne" /\ req[r].kind = "create")
            => /\ pc'[r] \in {"findOne", "build"}
               /\ pc'[r] = "build" => Stored(shortId'[r].s) = {}]_vars
    /\ \A r \in Requests :
         (pc[r] = "findOne" /\ req[r].kind = "create")
         ~> \/ pc[r] = "done" /\ res[r].status \in {200, 500}
            \/ StoreFull

\* a request is in the loop after a round whose candidate was found in the
\* store, while an identifier is still free
C22_Witness ==
    \E r \in Requests :
        /\ pc[r] = "findOne"
        /\ req[r].kind = "create"
        /\ Len(links) = 1
        /\ \E id \in generateShortId : shortId[r] = Str(id) /\ Stored(id) # {}

\* C23: a request whose store call failed makes no further step but its
\* answer, which is the 500 response "Internal server error" (neither a 400
\* nor the 404) and leaves the stored documents as they are; and a request
\* that was answered is not answered again
C23_FailureAnsweredOnce ==
    [][\A r \in Requests :
         /\ pc[r] = "catch"
            => /\ pc'[r] \in {"catch", "done"}
               /\ pc'[r] = "done"
                  => /\ res'[r] = ServerError
                     /\ res'[r].status \notin {BadRequest(<<>>).status,
                                               NotFound.status}
                     /\ links' = links
         /\ pc[r] = "done" => pc'[r] = "done" /\ res'[r] = res[r]]_vars

\* the Resolve of a stored link was answered 500 and counted no click
C23_Witness ==
    \E r \in Requests :
        /\ IsDone(r, "resolve")
        /\ res[r] = ServerError
        /\ \E i \in DOMAIN links :
             links[i].shortId = req[r].shortId /\ links[i].clickCount = 0

\* C24: a handler of the serverless entry point that continues after
\* `await connectToMongoDB()` finds linksCollection and db initialised
C24_HandleInitialised ==
    \A r \in Requests :
        pc[r] = "connected" => Truthy(linksCollection) /\ Truthy(db)

====
